---- MODULE Spec2Model ----
(***************************************************************************)
(* Verification model of the workshop notebooks of hail-is/2021_IBG_Hail.  *)
(*                                                                         *)
(* Five specifications, one per computation the notebooks perform:         *)
(*   SpecMating : hl.simulate_random_mating as the relatedness notebook    *)
(*                calls and documents it (3 rounds, multiplier 0.5,        *)
(*                2 children per pair) and the kinship of its pedigree;    *)
(*   SpecRel    : get_rel and the three scatter-plot cells that use it;    *)
(*   SpecBurden : the rare-variant notebook, from the quality-control      *)
(*                filters to the burden and weighted-burden regressions,   *)
(*                and what a failing library call leaves behind;           *)
(*   SpecEstimators : the IBD and KING estimators as sections 5 and 6 of   *)
(*                the relatedness notebook give them;                      *)
(*   SpecTables : the tables of both notebooks as objects, what each       *)
(*                statement reads, creates and binds.                      *)
(*                                                                         *)
(* Kinship values are exact rationals, stored as integer multiples of      *)
(* 1/KinUnit.                                                              *)
(***************************************************************************)
EXTENDS Integers, Sequences, FiniteSets, TLC

VARIABLES
    \* ---- simulate_random_mating (relatedness notebook, section 3)
    round,      \* number of mating rounds completed
    cols,       \* the columns of the simulated matrix table, by sample_idx
    pairs,      \* every pair created so far: [round, a, b]
    kin,        \* true kinship of every pair of samples, in 1/KinUnit
    \* ---- get_rel and the plots (relatedness notebook, sections 5 to 7)
    n_cols,     \* the number of columns of mt1
    rel,        \* the relatedness graph read from the globals of mt1
    pc,         \* the last cell of the relatedness notebook that ran
    out,        \* the value the last cell displayed
    king,       \* the table the KING cell bound to `king`
    fig,        \* the figure the last plot cell bound to `fig`
    \* ---- rare-variant notebook
    raw,        \* the input files: the rare-variant matrix table, the genes
    bpc,        \* the last cell of the rare-variant notebook that ran
    mt,         \* the rows of the matrix table bound to `mt`
    burden_mt,          \* the rows of the table bound to `burden_mt`
    burden_results,     \* the rows of the table bound to `burden_results`
    xx,                 \* the rows of the table bound to `xx`
    weighted_burden,    \* the rows of the table bound to `weighted_burden`
    raised,             \* the exception that stopped the notebook, if any
    \* ---- the estimators of sections 5 and 6, as the notebook gives them
    X,          \* the alternate allele counts of samples "i" and "j", by SNP
    p_alt,      \* the population alternate allele frequency, by SNP
    epc,        \* the last estimator evaluated
    phi_ibd,    \* the IBD estimate of the pair and its two sums
    phi_king,   \* the KING between-family estimate and its terms
    \* ---- the tables of the two notebooks as objects of the library
    files,      \* the contents of the input files under resources/
    store,      \* every table the library has created, by object identity
    env,        \* the table each name of the notebook is bound to (0: none)
    nb          \* the notebook that runs, its next cell, the cells re-run

matingVars == <<round, cols, pairs, kin>>
relVars == <<n_cols, rel, pc, out, king, fig>>
burdenVars == <<raw, bpc, mt, burden_mt, burden_results, xx, weighted_burden, raised>>
estVars == <<X, p_alt, epc, phi_ibd, phi_king>>
tableVars == <<files, store, env, nb>>
vars == <<matingVars, relVars, burdenVars, estVars, tableVars>>

NA == "NA"                       \* a missing parent

\* A value that may be missing (Hail's NA) is a set: empty when missing,
\* else holding the value.
Missing == {}
Some(x) == {x}
TheValue(o) == CHOOSE x \in o : TRUE

\* Kinship is stored in units of 1/128: three rounds of mating halve a
\* kinship at most twice each, starting from the founders' 1/2.
KinUnit == 2 ^ 7

-----------------------------------------------------------------------------
(* hl.simulate_random_mating(mt, pairs_per_generation_multiplier=0.5,      *)
(*                           children_per_pair=2, n_rounds=3, seed=5)      *)

MaxFounders == 3                 \* bound: columns of the founding dataset

PairsMultiplierNum == 1          \* pairs_per_generation_multiplier = 1/2
PairsMultiplierDen == 2
children_per_pair == 2
n_rounds == 3

NoPair == <<0, 0>>

Founder == [gen |-> 0, mother |-> NA, father |-> NA, pair |-> NoPair]

Samples(c) == DOMAIN c

Generation(c, g) == {s \in DOMAIN c : c[s].gen = g}

\* (a slip: one pair per sample instead of one per two samples)
PairCountsPerSample(n) == {n}

\* The number of pairs a generation of n samples creates: n times the
\* multiplier. The library's rounding of a fractional product is not visible
\* in the notebook, so either neighbouring integer may result.
PairCounts(n) ==
    { (n * PairsMultiplierNum) \div PairsMultiplierDen,
      (n * PairsMultiplierNum + PairsMultiplierDen - 1) \div PairsMultiplierDen }

\* The samples a round draws its pairs from: the newest generation only.
MatingPool(c, r) == Generation(c, r)

\* (a slip: the draw does not exclude the sample already drawn)
CandidatePairsWithSelf(G) == {p \in G \X G : p[1] <= p[2]}

\* The pairs one draw can produce: two different samples of the pool. A pair
\* is unordered; it is written lower sample_idx first.
CandidatePairs(G) == {p \in G \X G : p[1] < p[2]}

\* (a slip: only the maternal allele is followed)
KinWithOldMaternal(k, c, i, x) == k[c[i].mother][x] \div 2

\* Kinship of a new child i with a sample x of the earlier generations: one
\* allele of i comes from each parent with probability 1/2.
KinWithOld(k, c, i, x) == (k[c[i].mother][x] + k[c[i].father][x]) \div 2

\* (a slip: two children of one pair get the 1/4 of the table of section 4
\* whatever the kinship of their parents)
KinshipSiblingsQuarter(k, c, nOld, i, j) ==
    IF i < nOld /\ j < nOld THEN k[i][j]
    ELSE IF j < nOld THEN KinWithOld(k, c, i, j)
    ELSE IF i < nOld THEN KinWithOld(k, c, j, i)
    ELSE IF i = j THEN (KinUnit + k[c[i].mother][c[i].father]) \div 2
    ELSE IF c[i].mother = c[j].mother /\ c[i].father = c[j].father
         THEN KinUnit \div 4
    ELSE (KinWithOld(k, c, i, c[j].mother) + KinWithOld(k, c, i, c[j].father)) \div 2

\* The kinship of samples i and j once the children in c (indices >= nOld)
\* are added to a population whose kinship is k.
Kinship(k, c, nOld, i, j) ==
    IF i < nOld /\ j < nOld THEN k[i][j]
    ELSE IF j < nOld THEN KinWithOld(k, c, i, j)
    ELSE IF i < nOld THEN KinWithOld(k, c, j, i)
    ELSE IF i = j THEN (KinUnit + k[c[i].mother][c[i].father]) \div 2
    ELSE (KinWithOld(k, c, i, c[j].mother) + KinWithOld(k, c, i, c[j].father)) \div 2

\* Founders are unrelated and not inbred.
FounderKin(n) ==
    [i \in 0 .. n - 1 |-> [j \in 0 .. n - 1 |-> IF i = j THEN KinUnit \div 2 ELSE 0]]

\* The columns after the pairs ps (a sequence) of round r had their children.
WithChildren(c, ps, r) ==
    LET nOld == Cardinality(DOMAIN c)
        nNew == nOld + Len(ps) * children_per_pair
    IN  [s \in 0 .. nNew - 1 |->
            IF s < nOld THEN c[s]
            ELSE LET k == ((s - nOld) \div children_per_pair) + 1
                 IN  [gen |-> r, mother |-> ps[k][1], father |-> ps[k][2],
                      pair |-> <<r, k>>]]

\* One round of mating: the newest generation creates its pairs, drawn with
\* replacement, and every pair has children_per_pair children.
MateRound ==
    /\ round < n_rounds
    /\ \E np \in PairCounts(Cardinality(Generation(cols, round))) :
       \E ps \in [1 .. np -> CandidatePairs(MatingPool(cols, round))] :
          LET c2 == WithChildren(cols, ps, round + 1)
              nOld == Cardinality(DOMAIN cols)
          IN  /\ np > 0
              /\ cols' = c2
              /\ pairs' = pairs \o [k \in 1 .. np |->
                                      [round |-> round + 1, idx |-> k,
                                       a |-> ps[k][1], b |-> ps[k][2]]]
              /\ kin' = [i \in DOMAIN c2 |-> [j \in DOMAIN c2 |->
                            Kinship(kin, c2, nOld, i, j)]]
    /\ round' = round + 1
    /\ UNCHANGED <<relVars, burdenVars, estVars, tableVars>>

\* The variables of the rare-variant notebook while it is not running
BurdenIdle ==
    /\ raw = <<>>
    /\ bpc = "idle"
    /\ mt = <<>>
    /\ burden_mt = <<>>
    /\ burden_results = <<>>
    /\ xx = <<>>
    /\ weighted_burden = <<>>
    /\ raised = Missing

\* The variables of the estimators while none is being evaluated
EstimatorsIdle ==
    /\ X = <<>>
    /\ p_alt = <<>>
    /\ epc = "idle"
    /\ phi_ibd = Missing
    /\ phi_king = Missing

\* The variables of the object model while no notebook runs in it
TablesIdle ==
    /\ files = <<>>
    /\ store = <<>>
    /\ env = <<>>
    /\ nb = [name |-> "idle", next |-> 0, reruns |-> 0]

InitMating ==
    /\ round = 0
    /\ \E n \in 2 .. MaxFounders :
          /\ cols = [s \in 0 .. n - 1 |-> Founder]
          /\ kin = FounderKin(n)
    /\ pairs = <<>>
    /\ n_cols = 0
    /\ rel = <<>>
    /\ pc = "idle"
    /\ out = Missing
    /\ king = {}
    /\ fig = Missing
    /\ BurdenIdle
    /\ TablesIdle
    /\ EstimatorsIdle

NextMating == MateRound

SpecMating == InitMating /\ [][NextMating]_vars

-----------------------------------------------------------------------------
(* Properties of the simulated pedigree *)

Children(c) == {s \in DOMAIN c : c[s].gen > 0}

SameParents(c, x, y) ==
    /\ c[x].mother = c[y].mother
    /\ c[x].father = c[y].father

\* m and f are unrelated and neither is inbred
UnrelatedOutbred(m, f) ==
    /\ kin[m][f] = 0
    /\ kin[m][m] = KinUnit \div 2
    /\ kin[f][f] = KinUnit \div 2

PairsOfRound(r) == {k \in 1 .. Len(pairs) : pairs[k].round = r}

ChildrenOfPair(r, k) == {s \in DOMAIN cols : cols[s].pair = <<r, k>>}

\* C2: two children of the same pair whose parents are unrelated and not
\* inbred have kinship exactly 1/4, and so has each of the two parents with
\* each of these children.
C2_SiblingAndParentKinship ==
    \A x \in Children(cols) : \A y \in Children(cols) :
        (x # y /\ SameParents(cols, x, y)
              /\ UnrelatedOutbred(cols[x].mother, cols[x].father))
        => /\ kin[x][y] = KinUnit \div 4
           /\ kin[cols[x].mother][x] = KinUnit \div 4
           /\ kin[cols[x].father][x] = KinUnit \div 4
           /\ kin[x][cols[x].mother] = KinUnit \div 4
           /\ kin[x][cols[x].father] = KinUnit \div 4

C2_Witness ==
    \E x \in Children(cols) : \E y \in Children(cols) :
        /\ x # y /\ SameParents(cols, x, y)
        /\ UnrelatedOutbred(cols[x].mother, cols[x].father)
        /\ kin[x][y] = KinUnit \div 4

\* C5: no pair is a sample paired with itself, and the two members of a
\* pair belong to the same generation (the one mated in the pair's round).
C5_NoSelfPairNoSpan ==
    \A k \in 1 .. Len(pairs) :
        /\ pairs[k].a # pairs[k].b
        /\ cols[pairs[k].a].gen = cols[pairs[k].b].gen
        /\ cols[pairs[k].a].gen = pairs[k].round - 1

C5_Witness ==
    /\ round = n_rounds
    /\ \E k \in 1 .. Len(pairs) : pairs[k].round = n_rounds /\ pairs[k].a # pairs[k].b
    /\ \E k \in 1 .. Len(pairs) : \E l \in 1 .. Len(pairs) :
          k # l /\ pairs[k].round = pairs[l].round /\ pairs[k].a = pairs[l].a

FullSiblingsOfFounders(m, f) ==
    /\ m # f
    /\ m \in Children(cols) /\ f \in Children(cols)
    /\ SameParents(cols, m, f)
    /\ cols[cols[m].mother].gen = 0 /\ cols[cols[m].father].gen = 0
    /\ UnrelatedOutbred(cols[m].mother, cols[m].father)

\* C11: two children of a pair whose members are full siblings, themselves
\* children of unrelated founders that are not inbred, have kinship exactly
\* 3/8 = 0.375.
C11_ChildrenOfFullSiblings ==
    \A x \in Children(cols) : \A y \in Children(cols) :
        (x # y /\ SameParents(cols, x, y)
              /\ FullSiblingsOfFounders(cols[x].mother, cols[x].father))
        => /\ kin[x][y] = (3 * KinUnit) \div 8
           /\ kin[y][x] = (3 * KinUnit) \div 8

C11_Witness ==
    \E x \in Children(cols) : \E y \in Children(cols) :
        /\ x # y /\ SameParents(cols, x, y)
        /\ FullSiblingsOfFounders(cols[x].mother, cols[x].father)
        /\ kin[cols[x].mother][cols[x].father] = KinUnit \div 4
        /\ kin[x][y] = (3 * KinUnit) \div 8

-----------------------------------------------------------------------------
(* get_rel and the cells that plot an estimator against it *)

MaxSamples == 2                  \* bound: columns of mt1 in the plot cells

\* The kinship values a graph entry may hold: 1/4 and 1/8
KinValues == {KinUnit \div 4, KinUnit \div 8}

\* hl.rand_norm(0, 0.005) draws one value per row from a seeded generator;
\* the jitter of row (i, j) under a seed, in 1/KinUnit.
Seeds == 0 .. 2
Jitter(seed, i, j) == ((seed + 2 * i + j) % 3) - 1

\* The table of section 4: relationship, kinship coefficient phi and
\* coefficient of relationship r, in 1/KinUnit.
KinshipTable ==
    { [relationship |-> "Self",                   phi |-> KinUnit \div 2,  r |-> KinUnit],
      [relationship |-> "Parent-Child",           phi |-> KinUnit \div 4,  r |-> KinUnit \div 2],
      [relationship |-> "Full Sibling",           phi |-> KinUnit \div 4,  r |-> KinUnit \div 2],
      [relationship |-> "Grandparent-Grandchild", phi |-> KinUnit \div 8,  r |-> KinUnit \div 4],
      [relationship |-> "Avuncular Pair",         phi |-> KinUnit \div 8,  r |-> KinUnit \div 4],
      [relationship |-> "First Cousin",           phi |-> KinUnit \div 16, r |-> KinUnit \div 8] }

\* A Hail dict: a function on the keys it holds. d.get(k) is missing when d
\* is missing or does not hold k.
DictGet(d, k) ==
    IF d = Missing THEN Missing
    ELSE IF k \in DOMAIN TheValue(d) THEN Some(TheValue(d)[k]) ELSE Missing

coalesce(x, y) == IF x = Missing THEN y ELSE TheValue(x)

InnerDicts(S) == UNION {[D -> KinValues] : D \in SUBSET S}

\* Every relatedness graph over the samples S: a dict of dicts
Graphs(S) == UNION {[D -> InnerDicts(S)] : D \in SUBSET S}

\* (a slip: the s1 == s2 case is missing, so the graph is consulted)
get_rel_no_self(g, s1, s2) ==
    IF s1 > s2 THEN coalesce(DictGet(DictGet(Some(g), s1), s2), 0)
    ELSE coalesce(DictGet(DictGet(Some(g), s2), s1), 0)

\* (a slip: the default branch looks the pair up in the order given)
get_rel_case_as_given(g, s1, s2) ==
    IF s1 = s2 THEN KinUnit \div 2
    ELSE IF s1 > s2 THEN coalesce(DictGet(DictGet(Some(g), s1), s2), 0)
    ELSE coalesce(DictGet(DictGet(Some(g), s1), s2), 0)

\* The hl.case() of get_rel: its value before the jitter is added
get_rel_case(g, s1, s2) ==
    IF s1 = s2 THEN KinUnit \div 2
    ELSE IF s1 > s2 THEN coalesce(DictGet(DictGet(Some(g), s1), s2), 0)
    ELSE coalesce(DictGet(DictGet(Some(g), s2), s1), 0)

get_rel(g, s1, s2, seed) == get_rel_case(g, s1, s2) + Jitter(seed, s1, s2)

\* hl.str of a non-negative int32: its decimal digits
RECURSIVE IntToStr(_)
IntToStr(n) == IF n < 10 THEN <<n>> ELSE IntToStr(n \div 10) \o <<n % 10>>

\* hl.int of a string of decimal digits
RECURSIVE StrToInt(_)
StrToInt(str) ==
    IF Len(str) = 0 THEN 0
    ELSE 10 * StrToInt(SubSeq(str, 1, Len(str) - 1)) + str[Len(str)]

\* The sample_idx values of mt1: hl.scan.count() numbers the columns from 0
SampleIdx(n) == 0 .. n - 1

\* The pairs of columns an estimator reports once: first before second
ColumnPairs(n) == {p \in SampleIdx(n) \X SampleIdx(n) : p[1] < p[2]}

\* hl.identity_by_descent on mt1 keyed by hl.str(sample_idx): one row per
\* pair of columns, keyed by the two strings; then key_by(i=hl.int(i),
\* j=hl.int(j))
ibd_rows(n) ==
    LET keyed == {[i |-> IntToStr(p[1]), j |-> IntToStr(p[2])] : p \in ColumnPairs(n)}
    IN  {[i |-> StrToInt(row.i), j |-> StrToInt(row.j)] : row \in keyed}

\* hl.king(mt1.GT).entries(): one row per ordered pair of columns, the
\* self-comparisons then filtered out
king_rows(n) ==
    LET entries == {[sample_idx |-> a, sample_idx_1 |-> b] :
                       a \in SampleIdx(n), b \in SampleIdx(n)}
    IN  {row \in entries : row.sample_idx # row.sample_idx_1}

\* hl.pc_relate(..., statistics='kin'), keyed by the two sample_idx
pcrel_rows(n) == {[i |-> p[1], j |-> p[2]] : p \in ColumnPairs(n)}

\* (a slip: the IBD plot without its factor)
ibd_x_unscaled(g, i, j, seed) == get_rel(g, i, j, seed)

\* The x expressions of the three scatter plots
ibd_x(g, i, j, seed) == get_rel(g, i, j, seed) * 2
king_x(g, i, j, seed) == get_rel(g, i, j, seed)
pcrel_x(g, i, j, seed) == get_rel(g, i, j, seed)

\* A scratch cell that evaluates get_rel on one pair of sample indices and
\* displays the value
EvalGetRel ==
    /\ pc = "get_rel"
    /\ \E s1 \in SampleIdx(n_cols), s2 \in SampleIdx(n_cols), seed \in Seeds :
          out' = Some([s1 |-> s1, s2 |-> s2, seed |-> seed,
                        value |-> get_rel(rel, s1, s2, seed)])
    /\ pc' = "scratch"
    /\ UNCHANGED <<n_cols, rel, king, fig>>
    /\ UNCHANGED <<matingVars, burdenVars, estVars, tableVars>>

\* The IBD cell: estimate, re-key, scatter get_rel * 2 against PI_HAT
PlotIBD ==
    /\ pc = "get_rel"
    /\ \E seed \in Seeds :
          fig' = Some([xlabel |-> "True coefficient of relatedness",
                       ylabel |-> "IBD PI_HAT", seed |-> seed,
                       points |-> {[id1 |-> row.i, id2 |-> row.j,
                                    x |-> ibd_x(rel, row.i, row.j, seed)] :
                                   row \in ibd_rows(n_cols)}])
    /\ pc' = "ibd"
    /\ out' = Missing
    /\ UNCHANGED <<n_cols, rel, king>>
    /\ UNCHANGED <<matingVars, burdenVars, estVars, tableVars>>

\* The KING cell: estimate and drop the self-comparisons
KingCell ==
    /\ pc = "ibd"
    /\ king' = king_rows(n_cols)
    /\ pc' = "king"
    /\ out' = Missing
    /\ UNCHANGED <<n_cols, rel, fig>>
    /\ UNCHANGED <<matingVars, burdenVars, estVars, tableVars>>

\* The KING plot: scatter get_rel against phi
PlotKING ==
    /\ pc = "king"
    /\ \E seed \in Seeds :
          fig' = Some([xlabel |-> "True kinship", ylabel |-> "KING Phi",
                       seed |-> seed,
                       points |-> {[id1 |-> row.sample_idx, id2 |-> row.sample_idx_1,
                                    x |-> king_x(rel, row.sample_idx,
                                                 row.sample_idx_1, seed)] :
                                   row \in king}])
    /\ pc' = "king_plot"
    /\ out' = Missing
    /\ UNCHANGED <<n_cols, rel, king>>
    /\ UNCHANGED <<matingVars, burdenVars, estVars, tableVars>>

\* The PC-Relate cell: estimate, re-key, scatter get_rel against kin
PlotPCRelate ==
    /\ pc = "king_plot"
    /\ \E seed \in Seeds :
          fig' = Some([xlabel |-> "True kinship", ylabel |-> "PC-Relate Kinship",
                       seed |-> seed,
                       points |-> {[id1 |-> row.i, id2 |-> row.j,
                                    x |-> pcrel_x(rel, row.i, row.j, seed)] :
                                   row \in pcrel_rows(n_cols)}])
    /\ pc' = "pcrel"
    /\ out' = Missing
    /\ UNCHANGED <<n_cols, rel, king>>
    /\ UNCHANGED <<matingVars, burdenVars, estVars, tableVars>>

\* The state once the cell defining rel and get_rel has run: any number of
\* columns, any relatedness graph over them.
InitRel ==
    /\ \E n \in 1 .. MaxSamples :
          /\ n_cols = n
          /\ rel \in Graphs(SampleIdx(n))
    /\ pc = "get_rel"
    /\ out = Missing
    /\ king = {}
    /\ fig = Missing
    /\ round = 0
    /\ cols = <<>>
    /\ pairs = <<>>
    /\ kin = <<>>
    /\ BurdenIdle
    /\ TablesIdle
    /\ EstimatorsIdle

NextRel == EvalGetRel \/ PlotIBD \/ KingCell \/ PlotKING \/ PlotPCRelate

SpecRel == InitRel /\ [][NextRel]_vars

\* C1: get_rel of a sample with itself is 1/2 before the jitter, whatever
\* the relatedness graph holds, also under the sample's own key.
C1_SelfKinshipHalf ==
    \A o \in out :
        o.s1 = o.s2 => o.value - Jitter(o.seed, o.s1, o.s2) = KinUnit \div 2

C1_Witness ==
    \E o \in out :
        /\ o.s1 = o.s2
        /\ DictGet(DictGet(Some(rel), o.s1), o.s1) = Some(KinUnit \div 4)
        /\ o.value - Jitter(o.seed, o.s1, o.s2) = KinUnit \div 2

\* C10: in every row of the kinship table the coefficient of relationship is
\* twice the kinship coefficient; the IBD plot's x of a pair is twice its
\* get_rel, the KING and PC-Relate plots' x is get_rel itself.
C10_RelationshipIsTwiceKinship ==
    /\ \A row \in KinshipTable : row.r = 2 * row.phi
    /\ \A f \in fig : \A pt \in f.points :
          LET value == get_rel_case(rel, pt.id1, pt.id2)
                          + Jitter(f.seed, pt.id1, pt.id2)
          IN  /\ pc = "ibd" => pt.x = 2 * value
              /\ pc \in {"king_plot", "pcrel"} => pt.x = value

C10_Witness ==
    /\ pc = "ibd"
    /\ \E f \in fig : \E pt \in f.points :
          /\ get_rel_case(rel, pt.id1, pt.id2) = KinUnit \div 4
          /\ Jitter(f.seed, pt.id1, pt.id2) = 1
          /\ pt.x = KinUnit \div 2 + 2

\* The entry of the relatedness graph under (larger index, smaller index),
\* 0 when the graph holds none
Larger(a, b) == IF a > b THEN a ELSE b
Smaller(a, b) == IF a > b THEN b ELSE a
GraphEntry(a, b) ==
    IF Larger(a, b) \in DOMAIN rel /\ Smaller(a, b) \in DOMAIN rel[Larger(a, b)]
    THEN rel[Larger(a, b)][Smaller(a, b)]
    ELSE 0

\* The value before jitter behind a point of a plot
BeforeJitter(f, pt) == pt.x - Jitter(f.seed, pt.id1, pt.id2)

\* C17: for two different samples the value of get_rel before the jitter is
\* the graph entry under (larger index, smaller index), in whichever order
\* the two are given: in a scratch evaluation, and on the two rows of the
\* KING plot that hold the same pair in the two orders.
C17_GetRelSymmetric ==
    /\ \A o \in out :
          o.s1 # o.s2
          => o.value - Jitter(o.seed, o.s1, o.s2) = GraphEntry(o.s1, o.s2)
    /\ pc = "king_plot" =>
          \A f \in fig : \A pt \in f.points : \A qt \in f.points :
              (pt.id1 # pt.id2 /\ qt.id1 = pt.id2 /\ qt.id2 = pt.id1)
              => /\ BeforeJitter(f, pt) = BeforeJitter(f, qt)
                 /\ BeforeJitter(f, pt) = GraphEntry(pt.id1, pt.id2)

C17_Witness ==
    /\ pc = "king_plot"
    /\ 1 \in DOMAIN rel /\ 0 \in DOMAIN rel[1] /\ rel[1][0] = KinUnit \div 4
    /\ 0 \in DOMAIN rel /\ 1 \in DOMAIN rel[0] /\ rel[0][1] = KinUnit \div 8
    /\ \E f \in fig : \E pt \in f.points : \E qt \in f.points :
          /\ pt.id1 = 0 /\ pt.id2 = 1 /\ qt.id1 = 1 /\ qt.id2 = 0
          /\ BeforeJitter(f, pt) = KinUnit \div 4
          /\ BeforeJitter(f, qt) = KinUnit \div 4

-----------------------------------------------------------------------------
(* The rare-variant notebook: quality control, grouping by gene, the burden *)
(* test and the weighted burden test                                        *)

NumVariants == 2                 \* bound: rows of the input matrix table

\* The columns: two samples whose genotypes vary, and a block of further
\* samples that are homozygous reference at every variant.
SampleIds == {"s1", "s2"}
BackgroundSamples == 99          \* bound: size of the block

\* Gene names, in alphabetical order; a gene is written as its rank
gene_names == <<"MREG", "TFB2M">>
GeneRanks == 1 .. Len(gene_names)

AFThresholdNum == 1              \* .AF[1] < 0.01
AFThresholdDen == 100

\* A diploid call at a biallelic site: its two allele indices
Calls == {<<0, 0>>, <<0, 1>>, <<1, 1>>}
HomRefCall == <<0, 0>>

\* call.n_alt_alleles() and call.is_hom_ref(); missing for a missing call
n_alt_alleles(gt) ==
    IF gt = Missing THEN Missing
    ELSE LET c == TheValue(gt)
         IN  Some((IF c[1] # 0 THEN 1 ELSE 0) + (IF c[2] # 0 THEN 1 ELSE 0))

is_hom_ref(gt) ==
    IF gt = Missing THEN Missing
    ELSE Some(TheValue(gt)[1] = 0 /\ TheValue(gt)[2] = 0)

\* x > 0 and x * y on values that may be missing
GreaterThanZero(x) == IF x = Missing THEN Missing ELSE Some(TheValue(x) > 0)

Times(x, y) ==
    IF x = Missing \/ y = Missing THEN Missing ELSE Some(TheValue(x) * TheValue(y))

\* The sum of f over the set S
RECURSIVE SumOver(_, _)
SumOver(S, f) ==
    IF S = {} THEN 0
    ELSE LET x == CHOOSE y \in S : TRUE IN f[x] + SumOver(S \ {x}, f)

\* The elements of a set of integers, ascending
RECURSIVE SortedSeq(_)
SortedSeq(S) ==
    IF S = {} THEN <<>>
    ELSE LET m == CHOOSE y \in S : \A z \in S : y <= z
         IN  <<m>> \o SortedSeq(S \ {m})

\* An entry expression evaluated on every column of a row: its value on the
\* columns of SampleIds, and its one value on the background columns, whose
\* calls are all homozygous reference.
\* hl.agg.count_where(e) over the columns: the number of columns on which e
\* is true (a missing value does not count).
count_where_cols(e) ==
    Cardinality({s \in SampleIds : e.cols[s] = Some(TRUE)})
    + (IF e.background = Some(TRUE) THEN BackgroundSamples ELSE 0)

\* hl.agg.call_stats(mt.GT, mt.alleles): AC[1] and AN over the called
\* genotypes of a row; AF[1] = AC[1] / AN, missing when AN is 0
IsCalled(gt) == IF gt = Missing THEN Missing ELSE Some(TRUE)

call_stats(row) ==
    LET AN == 2 * count_where_cols(
                     [cols |-> [s \in SampleIds |-> IsCalled(row.GT[s])],
                      background |-> IsCalled(Some(HomRefCall))])
        AC == SumOver(SampleIds,
                      [s \in SampleIds |->
                          IF row.GT[s] = Missing THEN 0
                          ELSE TheValue(n_alt_alleles(row.GT[s]))])
    IN  [AC |-> AC, AN |-> AN,
         AF |-> IF AN = 0 THEN Missing ELSE Some([num |-> AC, den |-> AN])]

\* (a slip: <= in place of <)
AtMost(af, num, den) ==
    IF af = Missing THEN Missing
    ELSE Some(TheValue(af).num * den <= num * TheValue(af).den)

\* af < num / den on a frequency that may be missing
LessThan(af, num, den) ==
    IF af = Missing THEN Missing
    ELSE Some(TheValue(af).num * den < num * TheValue(af).den)

\* hl.agg.all(P) over the columns of a row: no column on which P is false;
\* missing values are not considered
IsFalse(b) == IF b = Missing THEN Missing ELSE Some(~TheValue(b))

agg_all_hom_ref(row) ==
    Some(count_where_cols(
             [cols |-> [s \in SampleIds |-> IsFalse(is_hom_ref(row.GT[s]))],
              background |-> IsFalse(is_hom_ref(Some(HomRefCall)))]) = 0)

\* The rows from the i-th on whose value of the filter expression is `keep`
RECURSIVE KeepFrom(_, _, _, _)
KeepFrom(rows, expr, keep, i) ==
    IF i > Len(rows) THEN <<>>
    ELSE (IF expr[i] = Some(keep) THEN <<rows[i]>> ELSE <<>>)
         \o KeepFrom(rows, expr, keep, i + 1)

\* (a slip: the expression is not applied, every row is kept)
filter_rows_keep_all(rows, expr, keep) == rows

\* filter_rows(expr, keep): the rows on which expr (given by its value on
\* every row) is `keep`; a row on which it is missing is removed
filter_rows(rows, expr, keep) == KeepFrom(rows, expr, keep, 1)

\* A row expression, by its value on every row of a table
passes_filters_expr(rows) == [i \in 1 .. Len(rows) |-> Some(Cardinality(rows[i].filters) = 0)]

is_rare_expr(rows) ==
    [i \in 1 .. Len(rows) |->
        LessThan(call_stats(rows[i]).AF, AFThresholdNum, AFThresholdDen)]

all_hom_ref_expr(rows) == [i \in 1 .. Len(rows) |-> agg_all_hom_ref(rows[i])]

\* hl.read_matrix_table('resources/hgdp-tgp-rare-variants.mt'): the rows of
\* the file in locus order
read_matrix_table(file) ==
    [v \in 1 .. Len(file.rows) |->
        [locus |-> v, filters |-> file.rows[v].filters, GT |-> file.rows[v].GT,
         cadd_phred |-> file.rows[v].cadd_phred]]

\* cell: read, remove non-PASS variants
FilterPass ==
    /\ raised = Missing
    /\ bpc = "start"
    /\ LET t == read_matrix_table(raw)
       IN  mt' = filter_rows(t, passes_filters_expr(t), TRUE)
    /\ bpc' = "pass"
    /\ UNCHANGED <<raw, raised, burden_mt, burden_results, xx, weighted_burden>>
    /\ UNCHANGED <<matingVars, relVars, estVars, tableVars>>

\* cell: keep variants with an allele frequency under 1%
FilterCommon ==
    /\ raised = Missing
    /\ bpc = "pass"
    /\ mt' = filter_rows(mt, is_rare_expr(mt), TRUE)
    /\ bpc' = "rare"
    /\ UNCHANGED <<raw, raised, burden_mt, burden_results, xx, weighted_burden>>
    /\ UNCHANGED <<matingVars, relVars, estVars, tableVars>>

\* cell: remove variants without any non-reference call
FilterNoNonRef ==
    /\ raised = Missing
    /\ bpc = "rare"
    /\ mt' = filter_rows(mt, all_hom_ref_expr(mt), FALSE)
    /\ bpc' = "qc"
    /\ UNCHANGED <<raw, raised, burden_mt, burden_results, xx, weighted_burden>>
    /\ UNCHANGED <<matingVars, relVars, estVars, tableVars>>

\* cells: genes = hl.read_table('resources/genes.ht');
\* mt = mt.annotate_rows(gene_name = genes[mt.locus].gene_name)
AnnotateGeneName ==
    /\ raised = Missing
    /\ bpc = "qc"
    /\ mt' = [i \in 1 .. Len(mt) |->
                [locus |-> mt[i].locus, filters |-> mt[i].filters,
                 GT |-> mt[i].GT, cadd_phred |-> mt[i].cadd_phred,
                 gene_name |-> raw.genes[mt[i].locus]]]
    /\ bpc' = "genes"
    /\ UNCHANGED <<raw, raised, burden_mt, burden_results, xx, weighted_burden>>
    /\ UNCHANGED <<matingVars, relVars, estVars, tableVars>>

\* (a slip: one group per row, the key is not deduplicated)
GroupKeysPerRow(rows) == [i \in 1 .. Len(rows) |-> rows[i].gene_name]

\* group_rows_by(mt.gene_name): the distinct keys of the rows, in key order
GroupKeys(rows) == SortedSeq({rows[i].gene_name : i \in 1 .. Len(rows)})

\* group_rows_by(mt.gene_name).aggregate(n_variants = hl.agg.count_where(e)):
\* one row per key; for each column the number of rows of the group on which
\* the entry expression e (given by its value on every row) is true
aggregate_count_where(rows, e) ==
    LET keys == GroupKeys(rows)
        group(g) == {i \in 1 .. Len(rows) : rows[i].gene_name = g}
    IN  [k \in 1 .. Len(keys) |->
            [gene_name |-> keys[k],
             n_variants |->
                [s \in SampleIds |->
                    Cardinality({i \in group(keys[k]) : e[i].cols[s] = Some(TRUE)})],
             n_variants_background |->
                Cardinality({i \in group(keys[k]) : e[i].background = Some(TRUE)})]]

\* hl.agg.sum(burden_mt.n_variants) over the columns of a grouped row
sum_n_variants(row) ==
    SumOver(SampleIds, row.n_variants) + BackgroundSamples * row.n_variants_background

has_rare_variant_expr(rows) == [i \in 1 .. Len(rows) |-> Some(sum_n_variants(rows[i]) > 0)]

\* mt.GT.n_alt_alleles() > 0
carries_variant(row, gt) == GreaterThanZero(n_alt_alleles(gt))

carries_variant_expr(rows) ==
    [i \in 1 .. Len(rows) |->
        [cols |-> [s \in SampleIds |-> carries_variant(rows[i], rows[i].GT[s])],
         background |-> carries_variant(rows[i], Some(HomRefCall))]]

\* mt.weight2 * mt.GT.n_alt_alleles() > 0
carries_weighted_variant(row, gt) ==
    GreaterThanZero(Times(Some(row.weight2), n_alt_alleles(gt)))

carries_weighted_variant_expr(rows) ==
    [i \in 1 .. Len(rows) |->
        [cols |-> [s \in SampleIds |-> carries_weighted_variant(rows[i], rows[i].GT[s])],
         background |-> carries_weighted_variant(rows[i], Some(HomRefCall))]]

\* hl.linear_regression_rows(y, x=t.n_variants, covariates): one row of
\* statistics per row of t, under t's row key. The statistics themselves are
\* the library's; the row keeps the predictor it regressed on.
linear_regression_rows(t) ==
    [i \in 1 .. Len(t) |-> [gene_name |-> t[i].gene_name, x |-> t[i].n_variants]]

\* cell: aggregate by gene, filter to genes with at least one rare variant
AggregateByGene ==
    /\ raised = Missing
    /\ bpc = "genes"
    /\ LET grouped == aggregate_count_where(mt, carries_variant_expr(mt))
       IN  burden_mt' = filter_rows(grouped, has_rare_variant_expr(grouped), TRUE)
    /\ bpc' = "burden"
    /\ UNCHANGED <<raw, raised, mt, burden_results, xx, weighted_burden>>
    /\ UNCHANGED <<matingVars, relVars, estVars, tableVars>>

\* cell: run the linear regression per gene
RegressBurden ==
    /\ raised = Missing
    /\ bpc = "burden"
    /\ burden_results' = linear_regression_rows(burden_mt)
    /\ bpc' = "results"
    /\ UNCHANGED <<raw, raised, mt, burden_mt, xx, weighted_burden>>
    /\ UNCHANGED <<matingVars, relVars, estVars, tableVars>>

\* mt.annotate_rows(weight1 = ..., weight2 = mt.cadd.phred)
annotate_weight2(rows) ==
    [i \in 1 .. Len(rows) |->
        [locus |-> rows[i].locus, filters |-> rows[i].filters,
         GT |-> rows[i].GT, cadd_phred |-> rows[i].cadd_phred,
         gene_name |-> rows[i].gene_name,
         weight2 |-> rows[i].cadd_phred]]

\* cell (Exercise 2): annotate the weights, aggregate, filter, regress
WeightedBurden ==
    /\ raised = Missing
    /\ bpc = "results"
    /\ LET weighted == annotate_weight2(mt)
           grouped == aggregate_count_where(
                          weighted, carries_weighted_variant_expr(weighted))
           kept == filter_rows(grouped, has_rare_variant_expr(grouped), TRUE)
       IN  /\ mt' = weighted
           /\ xx' = kept
           /\ weighted_burden' = linear_regression_rows(kept)
    /\ bpc' = "weighted"
    /\ UNCHANGED <<raw, raised, burden_mt, burden_results>>
    /\ UNCHANGED <<matingVars, relVars, estVars, tableVars>>

\* The exception a call into the library may raise
Exceptions == {"FatalError"}

\* (a slip: a handler that re-raises every failure as one error of its own)
PropagateTranslated(exc) == "RuntimeError"

\* What the notebook shows for an exception a call raised: no cell has a
\* try statement, so the exception itself
Propagate(exc) == exc

\* The names the statements of the cell that runs after `cell` assign, in
\* the order of the statements
Targets(cell) ==
    CASE cell = "start"   -> <<"mt", "mt">>
      [] cell = "pass"    -> <<"mt">>
      [] cell = "rare"    -> <<"mt">>
      [] cell = "qc"      -> <<"genes", "mt">>
      [] cell = "genes"   -> <<"burden_mt", "burden_mt">>
      [] cell = "burden"  -> <<"burden_mt", "burden_results">>
      [] cell = "results" -> <<"mt", "mt", "xx", "xx", "weighted_burden">>
      [] OTHER            -> <<>>

\* The bindings of mt, burden_mt and xx just before each statement of the
\* cell that runs after `cell`: what the statements before it have bound
Progress(cell) ==
    LET now == [mt |-> mt, burden_mt |-> burden_mt, xx |-> xx]
        weighted == annotate_weight2(mt)
        grouped == aggregate_count_where(mt, carries_variant_expr(mt))
        grouped2 == aggregate_count_where(
                        weighted, carries_weighted_variant_expr(weighted))
    IN  CASE cell = "start" ->
               <<now, [now EXCEPT !.mt = read_matrix_table(raw)]>>
          [] cell = "pass" -> <<now>>
          [] cell = "rare" -> <<now>>
          [] cell = "qc" -> <<now, now>>
          [] cell = "genes" -> <<now, [now EXCEPT !.burden_mt = grouped]>>
          [] cell = "burden" -> <<now, now>>
          [] cell = "results" ->
               <<now,
                 [now EXCEPT !.mt = weighted],
                 [now EXCEPT !.mt = weighted],
                 [now EXCEPT !.mt = weighted, !.xx = grouped2],
                 [now EXCEPT !.mt = weighted,
                             !.xx = filter_rows(grouped2,
                                                has_rare_variant_expr(grouped2),
                                                TRUE)]>>
          [] OTHER -> <<>>

\* A call of the next cell raises: the statements before it have made their
\* bindings, the failing statement binds nothing, the exception reaches the
\* notebook and the run stops in this cell.
CellRaises ==
    /\ raised = Missing
    /\ \E k \in 1 .. Len(Targets(bpc)) : \E exc \in Exceptions :
          /\ mt' = Progress(bpc)[k].mt
          /\ burden_mt' = Progress(bpc)[k].burden_mt
          /\ xx' = Progress(bpc)[k].xx
          /\ raised' = Some([thrown |-> exc, shown |-> Propagate(exc),
                             cell |-> bpc, statement |-> k])
    /\ UNCHANGED <<raw, bpc, burden_results, weighted_burden>>
    /\ UNCHANGED <<matingVars, relVars, estVars, tableVars>>

\* The rows an input file may hold at one locus: a PASS variant with any
\* genotypes, or a variant that carries a filter flag.
VariantData(v) ==
    {[filters |-> {}, GT |-> g, cadd_phred |-> 5 * v] :
        g \in [SampleIds -> {Missing} \cup {Some(c) : c \in Calls}]}
    \cup {[filters |-> {"VQSRTrancheSNP"},
           GT |-> [s \in SampleIds |-> Some(<<0, 1>>)], cadd_phred |-> 5 * v]}

InputFiles ==
    {[rows |-> r, genes |-> g] :
        r \in {f \in [1 .. NumVariants -> UNION {VariantData(v) : v \in 1 .. NumVariants}] :
                  \A v \in 1 .. NumVariants : f[v] \in VariantData(v)},
        g \in [1 .. NumVariants -> GeneRanks]}

InitBurden ==
    /\ raw \in InputFiles
    /\ bpc = "start"
    /\ mt = <<>>
    /\ burden_mt = <<>>
    /\ burden_results = <<>>
    /\ xx = <<>>
    /\ weighted_burden = <<>>
    /\ raised = Missing
    /\ round = 0
    /\ cols = <<>>
    /\ pairs = <<>>
    /\ kin = <<>>
    /\ n_cols = 0
    /\ rel = <<>>
    /\ pc = "idle"
    /\ out = Missing
    /\ king = {}
    /\ fig = Missing
    /\ EstimatorsIdle
    /\ TablesIdle

NextBurden ==
    \/ FilterPass \/ FilterCommon \/ FilterNoNonRef \/ AnnotateGeneName
    \/ AggregateByGene \/ RegressBurden \/ WeightedBurden
    \/ CellRaises

SpecBurden == InitBurden /\ [][NextBurden]_vars

-----------------------------------------------------------------------------
(* Properties of the rare-variant notebook *)

AfterQC == bpc \in {"qc", "genes", "burden", "results", "weighted"}
AfterBurden == bpc \in {"burden", "results", "weighted"}
AfterResults == bpc \in {"results", "weighted"}

RowsOf(t) == {t[i] : i \in 1 .. Len(t)}
Retained == {r.locus : r \in RowsOf(mt)}
GeneNamesOf(t) == {r.gene_name : r \in RowsOf(t)}

\* The number of alternate alleles of a genotype, 0 when it is missing
AltCount(gt) ==
    IF gt = Missing THEN 0
    ELSE Cardinality({k \in 1 .. 2 : TheValue(gt)[k] # 0})

\* A variant of the input file, by what the file holds
NoFilterFlags(v) == raw.rows[v].filters = {}
CalledSamples(v) == {s \in SampleIds : raw.rows[v].GT[s] # Missing}
AltAlleles(v) == SumOver(SampleIds, [s \in SampleIds |-> AltCount(raw.rows[v].GT[s])])
AllelesCalled(v) == 2 * (Cardinality(CalledSamples(v)) + BackgroundSamples)
AltFrequencyUnderOnePercent(v) ==
    AllelesCalled(v) > 0 /\ 100 * AltAlleles(v) < AllelesCalled(v)
HasNonRefCall(v) == \E s \in CalledSamples(v) : AltCount(raw.rows[v].GT[s]) > 0

\* The rows of mt that fall in gene g
VariantsOfGene(g) == {r \in RowsOf(mt) : r.gene_name = g}

\* C3 as stated: the burden predictor of gene k and sample i is the sum of
\* the sample's alternate allele counts over the retained variants of gene k.
C3_PredictorIsGenotypeSum ==
    AfterBurden =>
        \A r \in RowsOf(burden_mt) : \A s \in SampleIds :
            r.n_variants[s] =
                SumOver(VariantsOfGene(r.gene_name),
                        [v \in VariantsOfGene(r.gene_name) |-> AltCount(v.GT[s])])

\* C4 as stated: the weighted burden predictor of gene k and sample i is the
\* sum over the gene's variants of the weight times the sample's alternate
\* allele count.
C4_PredictorIsWeightedSum ==
    bpc = "weighted" =>
        \A r \in RowsOf(xx) : \A s \in SampleIds :
            r.n_variants[s] =
                SumOver(VariantsOfGene(r.gene_name),
                        [v \in VariantsOfGene(r.gene_name) |->
                            v.weight2 * AltCount(v.GT[s])])

\* C7: after the three quality-control filters a variant of the input is in
\* mt exactly when it has no filter flag, an alternate allele frequency under
\* 1% and at least one non-reference call.
C7_QualityControl ==
    AfterQC =>
        \A v \in 1 .. NumVariants :
            v \in Retained <=>
                (NoFilterFlags(v) /\ AltFrequencyUnderOnePercent(v) /\ HasNonRefCall(v))

C7_Witness ==
    /\ bpc = "qc"
    /\ \E v \in Retained : AltAlleles(v) = 2
    /\ \E v \in 1 .. NumVariants :
          v \notin Retained /\ NoFilterFlags(v) /\ HasNonRefCall(v)

\* C8: every gene row of burden_mt has a sample with n_variants > 0, carried
\* by a retained variant of that gene, and no gene of mt without such a
\* sample is a row of burden_mt.
C8_KeptGenesHaveCarrier ==
    AfterBurden =>
        /\ \A r \in RowsOf(burden_mt) :
              /\ \E s \in SampleIds : r.n_variants[s] > 0
              /\ \E v \in VariantsOfGene(r.gene_name) :
                    \E s \in SampleIds : AltCount(v.GT[s]) > 0
        /\ \A g \in GeneNamesOf(mt) :
              (\A v \in VariantsOfGene(g) : \A s \in SampleIds : AltCount(v.GT[s]) = 0)
              => g \notin GeneNamesOf(burden_mt)

C8_Witness ==
    /\ bpc = "burden"
    /\ Len(burden_mt) = 2
    /\ \E r \in RowsOf(burden_mt) : \E s \in SampleIds :
          r.n_variants[s] > 0 /\ \E t \in SampleIds : r.n_variants[t] = 0

\* C9: burden_results has exactly one row for each distinct gene_name of
\* burden_mt and no two of its rows share a gene_name, however many variants
\* fall in a gene.
C9_OneTestPerGene ==
    AfterResults =>
        /\ GeneNamesOf(burden_results) = GeneNamesOf(burden_mt)
        /\ GeneNamesOf(burden_results) \subseteq GeneNamesOf(mt)
        /\ \A i \in 1 .. Len(burden_results) : \A j \in 1 .. Len(burden_results) :
              i # j => burden_results[i].gene_name # burden_results[j].gene_name

C9_Witness ==
    /\ bpc = "results"
    /\ Len(burden_results) = 1
    /\ Cardinality(VariantsOfGene(burden_results[1].gene_name)) = 2

\* The names the cells of the rare-variant notebook bind to tables
BindingNames == {"mt", "burden_mt", "burden_results", "xx", "weighted_burden"}

\* A step leaves the binding of a name as it was
BindingUnchanged(name) ==
    CASE name = "mt"              -> mt' = mt
      [] name = "burden_mt"       -> burden_mt' = burden_mt
      [] name = "burden_results"  -> burden_results' = burden_results
      [] name = "xx"              -> xx' = xx
      [] name = "weighted_burden" -> weighted_burden' = weighted_burden

\* A step in which a call raises
Raises == raised = Missing /\ raised' # Missing

\* The names the statements before the k-th of the running cell assign
AssignedBefore(k) == {Targets(bpc)[l] : l \in 1 .. k - 1}

\* C15 as stated: when a library call of a cell fails, the exception shown
\* is the one the call raised, the failing cell leaves every binding as it
\* was before the cell, and no cell runs after it.
C15_Original ==
    [][ /\ Raises =>
              /\ TheValue(raised').shown = TheValue(raised').thrown
              /\ bpc' = bpc
              /\ \A name \in BindingNames : BindingUnchanged(name)
        /\ raised # Missing => UNCHANGED burdenVars ]_vars

\* C15 as amended: when a library call of a cell fails, the exception shown
\* is the one the call raised; the failing statement and the statements
\* after it bind nothing, so every name that no earlier statement of the
\* same cell assigned keeps its binding; and nothing runs after the failure.
C15_FailureSurfaces ==
    [][ /\ Raises =>
              /\ TheValue(raised').shown = TheValue(raised').thrown
              /\ bpc' = bpc
              /\ raw' = raw
              /\ \A name \in BindingNames \ AssignedBefore(TheValue(raised').statement) :
                    BindingUnchanged(name)
        /\ raised # Missing => UNCHANGED burdenVars ]_vars

C15_Witness ==
    /\ bpc = "results"
    /\ \E r \in raised :
          /\ r.thrown = "FatalError" /\ r.shown = "FatalError"
          /\ r.cell = "results" /\ r.statement = Len(Targets("results"))
    /\ Len(xx) > 0
    /\ Len(burden_results) > 0
    /\ weighted_burden = <<>>

-----------------------------------------------------------------------------
(* The estimators of kinship as sections 5 and 6 of the relatedness         *)
(* notebook give them, evaluated on one pair of samples i and j             *)

MaxSites == 2                    \* bound: M, the number of biallelic SNPs
FreqHalf == 2                    \* bound: frequencies are multiples of 1/(2 * FreqHalf)

\* A population allele frequency p_m is written as its multiple of 1/FreqDen
FreqDen == 2 * FreqHalf

\* X_im: the number of alternate alleles of a genotype at a biallelic SNP
AltAlleleCounts == 0 .. 2

\* Exact fractions, the denominator positive
Rat(n, d) == IF d > 0 THEN [num |-> n, den |-> d] ELSE [num |-> -n, den |-> -d]
Half == Rat(1, 2)
RatEq(a, b) == a.num * b.den = b.num * a.den
RatLeq(a, b) == a.num * b.den <= b.num * a.den

\* (a slip: the second term is added)
HalfPlus(n, d) == Rat(d + 2 * n, 2 * d)

\* 1/2 - n/d, for d # 0
HalfMinus(n, d) == Rat(d - 2 * n, 2 * d)

Min(a, b) == IF a <= b THEN a ELSE b

\* (a slip: the two counts are added)
SquaredSums(xi, xj) ==
    SumOver(DOMAIN xi, [m \in DOMAIN xi |-> (xi[m] + xj[m]) * (xi[m] + xj[m])])

\* sum over m of (X_im - X_jm)^2
SquaredDifferences(xi, xj) ==
    SumOver(DOMAIN xi, [m \in DOMAIN xi |-> (xi[m] - xj[m]) * (xi[m] - xj[m])])

\* sum over m of 8 p_m (p_m - 1), in units of 1/FreqDen^2
ibd_denominator(p) ==
    SumOver(DOMAIN p, [m \in DOMAIN p |-> 8 * p[m] * (p[m] - FreqDen)])

\* Section 5: phi_ij = 1/2 - sum (X_im - X_jm)^2 / sum 8 p_m (p_m - 1);
\* no value when the denominator is zero
ibd_estimator(xi, xj, p) ==
    LET n == SquaredDifferences(xi, xj)
        d == ibd_denominator(p)
    IN  IF d = 0 THEN Missing
        ELSE Some([numerator |-> n, denominator |-> d,
                   phi |-> HalfMinus(n * FreqDen * FreqDen, d)])

\* N^Aa: the number of heterozygote genotypes of a sample
HetCount(x) == Cardinality({m \in DOMAIN x : x[m] = 1})

\* Section 6: phi_ij = 1/2 - sum (X_im - X_jm)^2 / (4 min(N^Aa_i, N^Aa_j));
\* no value when the minimum is zero
king_estimator(xi, xj) ==
    LET n == SquaredDifferences(xi, xj)
        d == 4 * Min(HetCount(xi), HetCount(xj))
    IN  IF d = 0 THEN Missing
        ELSE Some([numerator |-> n, denominator |-> d, phi |-> HalfMinus(n, d)])

\* Evaluate the estimator of section 5 on the pair
EstimateIBD ==
    /\ epc = "start"
    /\ phi_ibd' = ibd_estimator(X.i, X.j, p_alt)
    /\ epc' = "ibd"
    /\ UNCHANGED <<X, p_alt, phi_king>>
    /\ UNCHANGED <<matingVars, relVars, burdenVars, tableVars>>

\* Evaluate the estimator of section 6 on the pair
EstimateKING ==
    /\ epc = "ibd"
    /\ phi_king' = king_estimator(X.i, X.j)
    /\ epc' = "king"
    /\ UNCHANGED <<X, p_alt, phi_ibd>>
    /\ UNCHANGED <<matingVars, relVars, burdenVars, tableVars>>

\* Any two genotype vectors over M SNPs, any allele frequencies
InitEstimators ==
    /\ \E M \in 1 .. MaxSites :
          /\ X \in [i : [1 .. M -> AltAlleleCounts], j : [1 .. M -> AltAlleleCounts]]
          /\ p_alt \in [1 .. M -> 0 .. FreqDen]
    /\ epc = "start"
    /\ phi_ibd = Missing
    /\ phi_king = Missing
    /\ round = 0
    /\ cols = <<>>
    /\ pairs = <<>>
    /\ kin = <<>>
    /\ n_cols = 0
    /\ rel = <<>>
    /\ pc = "idle"
    /\ out = Missing
    /\ king = {}
    /\ fig = Missing
    /\ BurdenIdle
    /\ TablesIdle

NextEstimators == EstimateIBD \/ EstimateKING

SpecEstimators == InitEstimators /\ [][NextEstimators]_vars

NumSites == Len(p_alt)

\* C12: when the two samples have the same genotype at every SNP and the
\* denominator is not zero, the numerator of the IBD estimator is zero and
\* the estimate is exactly 1/2, whatever the allele frequencies.
C12_IdenticalGenotypesGiveHalf ==
    \A e \in phi_ibd :
        X.i = X.j => (e.numerator = 0 /\ RatEq(e.phi, Half))

C12_Witness ==
    /\ epc = "ibd"
    /\ X.i = X.j
    /\ NumSites = MaxSites
    /\ \E m \in 1 .. NumSites : X.i[m] = 1
    /\ \E m \in 1 .. NumSites : \E l \in 1 .. NumSites : p_alt[m] # p_alt[l]
    /\ \E e \in phi_ibd : e.denominator # 0 /\ RatEq(e.phi, Half)

\* The two samples are homozygous for different alleles at every SNP, and
\* every allele frequency is 1/2
OpposingHomozygotesEvenSplit ==
    \A m \in 1 .. NumSites :
        /\ {X.i[m], X.j[m]} = {0, 2}
        /\ 2 * p_alt[m] = FreqDen

\* C13 as stated: for opposing homozygous genotypes at every one of the M
\* SNPs and allele frequency 1/2 throughout, the numerator of the IBD
\* estimator is 4M and its denominator, the sum of 8 p (p - 1), is 8M.
C13_OpposingHomozygotes ==
    \A e \in phi_ibd :
        OpposingHomozygotesEvenSplit
        => /\ e.numerator = 4 * NumSites
           /\ e.denominator = 8 * NumSites * FreqDen * FreqDen

\* C14: when both samples have a heterozygote genotype, the KING estimate is
\* at most 1/2, and it is 1/2 exactly when the two samples have the same
\* genotype at every SNP.
C14_KingAtMostHalf ==
    \A e \in phi_king :
        Min(HetCount(X.i), HetCount(X.j)) > 0
        => /\ RatLeq(e.phi, Half)
           /\ RatEq(e.phi, Half) <=> X.i = X.j

C14_Witness ==
    /\ epc = "king"
    /\ NumSites = MaxSites
    /\ X.i # X.j
    /\ Min(HetCount(X.i), HetCount(X.j)) > 0
    /\ \E e \in phi_king : e.numerator > 0 /\ ~RatEq(e.phi, Half) /\ RatLeq(e.phi, Half)

-----------------------------------------------------------------------------
(* The tables of the two notebooks as objects: what each statement reads,   *)
(* creates and binds                                                        *)

MaxReruns == 1                   \* bound: cells run again out of order

\* What an input file may hold
FileVersions == {"v1", "v2"}

\* A statement that binds a name to a table: a read of an input file, a
\* plain assignment of another name, or a call that derives a table from the
\* one a name is bound to
Read(target, file) == [kind |-> "read", target |-> target, source |-> file, op |-> "read"]
Assign(target, source) == [kind |-> "assign", target |-> target, source |-> source, op |-> "="]
Call(target, source, op) == [kind |-> "call", target |-> target, source |-> source, op |-> op]

\* The table statements of the code cells of the relatedness notebook
RelatednessCells ==
    << <<Read("mt", "resources/hgdp.mt"),
         Read("sd", "resources/HGDP_sample_data.tsv"),
         Call("mt", "mt", "annotate_cols")>>,
       <<Call("mt1", "mt", "simulate_random_mating"),
         Call("mt1", "mt1", "annotate_cols")>>,
       <<Call("joined_data", "mt1", "index_cols")>>,
       <<Call("ibd", "mt1", "identity_by_descent"),
         Call("ibd", "ibd", "key_by")>>,
       <<Call("king", "mt1", "king"),
         Call("king", "king", "filter")>>,
       <<Call("pcrel", "mt1", "pc_relate"),
         Call("pcrel", "pcrel", "key_by")>> >>

\* The table statements of the code cells of the rare-variant notebook
RareVariantCells ==
    << <<Read("mt", "resources/hgdp-tgp-rare-variants.mt"),
         Call("mt", "mt", "filter_rows")>>,
       <<Call("mt", "mt", "filter_rows")>>,
       <<Call("mt", "mt", "filter_rows")>>,
       <<Read("genes", "resources/genes.ht")>>,
       <<Call("mt", "mt", "annotate_rows")>>,
       <<Read("phenos", "resources/rare-variant-phenotypes.ht"),
         Call("mt", "mt", "annotate_cols")>>,
       <<Call("burden_mt", "mt", "aggregate"),
         Call("burden_mt", "burden_mt", "filter_rows")>>,
       <<Assign("xx", "burden_mt")>>,
       <<Assign("xx", "burden_mt"), Call("xx", "xx", "annotate_rows")>>,
       <<Assign("xx", "burden_mt"), Call("xx", "xx", "annotate_rows")>>,
       <<Assign("xx", "burden_mt"), Call("xx", "xx", "annotate_rows")>>,
       <<Call("burden_mt", "burden_mt", "annotate_cols"),
         Call("burden_results", "burden_mt", "linear_regression_rows")>>,
       <<Assign("ht", "burden_results")>>,
       <<Call("mt", "mt", "annotate_cols"),
         Call("linreg_results", "mt", "linear_regression_rows"),
         Assign("ht", "linreg_results")>>,
       <<Call("mt", "mt", "annotate_rows"),
         Call("mt", "mt", "annotate_cols"),
         Call("xx", "mt", "aggregate"),
         Call("xx", "xx", "filter_rows"),
         Call("weighted_burden", "xx", "linear_regression_rows"),
         Assign("ht", "weighted_burden")>>,
       <<Assign("skat_mt", "mt"),
         Call("skat_mt", "skat_mt", "annotate_cols"),
         Call("skat_mt", "skat_mt", "variant_qc"),
         Call("skat_mt", "skat_mt", "annotate_rows"),
         Call("skat_results", "skat_mt", "skat")>>,
       <<Assign("ht", "skat_results"), Call("ht", "ht", "annotate")>>,
       <<Call("mt", "mt", "annotate_cols"),
         Call("linreg_results", "mt", "linear_regression_rows"),
         Assign("ht", "linreg_results")>> >>

Notebooks == {"relatedness", "rare-variant"}

CellsOf(name) == IF name = "relatedness" THEN RelatednessCells ELSE RareVariantCells

StatementsOf(name) ==
    UNION {{CellsOf(name)[c][k] : k \in 1 .. Len(CellsOf(name)[c])} :
              c \in 1 .. Len(CellsOf(name))}

\* The names a notebook binds to tables, and the input files it reads
TableNames(name) == {st.target : st \in StatementsOf(name)}
FilesOf(name) == {st.source : st \in {x \in StatementsOf(name) : x.kind = "read"}}

\* The library creates a table: a new object of the store, bound to target
NewTable(st, target, contents) ==
    [store |-> Append(st.store, contents),
     env |-> [st.env EXCEPT ![target] = Len(st.store) + 1]]

\* hl.read_matrix_table, hl.read_table, hl.import_table
read_file(st, stmt, fl) ==
    NewTable(st, stmt.target,
             [file |-> stmt.source, version |-> fl[stmt.source], ops |-> <<>>])

\* (a slip: the call changes the table it is given and returns that table)
DeriveInPlace(st, stmt) ==
    [store |-> [st.store EXCEPT ![st.env[stmt.source]].ops = Append(@, stmt.op)],
     env |-> [st.env EXCEPT ![stmt.target] = st.env[stmt.source]]]

\* A call on a table (annotate_*, filter_rows, group_rows_by().aggregate,
\* key_by, variant_qc, ...): the result is a new table with the contents of
\* the source transformed
Derive(st, stmt) ==
    LET from == st.store[st.env[stmt.source]]
    IN  NewTable(st, stmt.target, [from EXCEPT !.ops = Append(@, stmt.op)])

\* One statement
Execute(st, stmt, fl) ==
    CASE stmt.kind = "read"   -> read_file(st, stmt, fl)
      [] stmt.kind = "assign" -> [st EXCEPT !.env[stmt.target] = st.env[stmt.source]]
      [] stmt.kind = "call"   -> Derive(st, stmt)

\* The statements of a cell from the k-th on, in order
RECURSIVE ExecuteFrom(_, _, _, _)
ExecuteFrom(st, stmts, fl, k) ==
    IF k > Len(stmts) THEN st
    ELSE ExecuteFrom(Execute(st, stmts[k], fl), stmts, fl, k + 1)

\* Run the next cell of the notebook
RunCell ==
    /\ nb.name \in Notebooks
    /\ nb.next <= Len(CellsOf(nb.name))
    /\ LET after == ExecuteFrom([store |-> store, env |-> env],
                                CellsOf(nb.name)[nb.next], files, 1)
       IN  /\ store' = after.store
           /\ env' = after.env
    /\ nb' = [nb EXCEPT !.next = @ + 1]
    /\ UNCHANGED files
    /\ UNCHANGED <<matingVars, relVars, burdenVars, estVars>>

\* Run again a cell that has already run
RerunCell ==
    /\ nb.name \in Notebooks
    /\ nb.reruns < MaxReruns
    /\ \E c \in 1 .. nb.next - 1 :
          LET after == ExecuteFrom([store |-> store, env |-> env],
                                   CellsOf(nb.name)[c], files, 1)
          IN  /\ store' = after.store
              /\ env' = after.env
    /\ nb' = [nb EXCEPT !.reruns = @ + 1]
    /\ UNCHANGED files
    /\ UNCHANGED <<matingVars, relVars, burdenVars, estVars>>

\* A fresh kernel on either notebook, the input files holding anything
InitTables ==
    /\ \E name \in Notebooks :
          /\ nb = [name |-> name, next |-> 1, reruns |-> 0]
          /\ files \in [FilesOf(name) -> FileVersions]
          /\ env = [n \in TableNames(name) |-> 0]
    /\ store = <<>>
    /\ round = 0
    /\ cols = <<>>
    /\ pairs = <<>>
    /\ kin = <<>>
    /\ n_cols = 0
    /\ rel = <<>>
    /\ pc = "idle"
    /\ out = Missing
    /\ king = {}
    /\ fig = Missing
    /\ BurdenIdle
    /\ EstimatorsIdle

NextTables == RunCell \/ RerunCell

SpecTables == InitTables /\ [][NextTables]_vars

\* The ops applied to the table a name is bound to
OpsOf(name) == store[env[name]].ops

\* C16: no step changes an input file or the contents of a table that
\* exists; a name that is bound anew is bound to a table created in that
\* step or to the table of another name; so the table a new one was derived
\* from keeps its contents.
C16_InputsOnlyRead ==
    [][ /\ files' = files
        /\ Len(store') >= Len(store)
        /\ \A id \in 1 .. Len(store) : store'[id] = store[id]
        /\ \A name \in DOMAIN env :
              env'[name] # env[name]
              => \/ env'[name] > Len(store)
                 \/ \E other \in DOMAIN env \ {name} : env'[name] = env'[other] ]_vars

C16_Witness ==
    /\ nb.name = "rare-variant"
    /\ nb.next = 18
    /\ env["skat_mt"] # 0 /\ env["skat_results"] # 0
    /\ env["skat_mt"] # env["mt"]
    /\ OpsOf("skat_mt") = OpsOf("mt") \o <<"annotate_cols", "variant_qc", "annotate_rows">>
    /\ \A k \in 1 .. Len(OpsOf("mt")) : OpsOf("mt")[k] # "variant_qc"
    /\ store[env["mt"]].version = files["resources/hgdp-tgp-rare-variants.mt"]

====
